---- MODULE Spec2Model ----
(***************************************************************************)
(* The campus event-registration portal (TechNova).  Two deployments of   *)
(* the same portal live in the repository: app.py + models.py + routes.py *)
(* ("routes") and the single-file run_local.py ("run_local").  The store  *)
(* holds Students, Events and Registrations; request handlers read and    *)
(* write it through the ORM session and answer with a flash message.      *)
(***************************************************************************)
EXTENDS Integers, FiniteSets, Bags, TLC

VARIABLES variant, students, events, registrations, session, now, response, inflight

vars == <<variant, students, events, registrations, session, now, response, inflight>>

store == <<students, events, registrations>>

(* ------------------------ bounds and universes ----------------------- *)

MaxEvents == 1
MaxCap == 2
NumRequests == 2

\* the students who signed up
StudentIds == {1, 2}
EventIds == 1..MaxEvents
\* the browsers (one cookie session each)
Clients == {"alice", "bob", "admin"}
Requests == 1..NumRequests
Emails == {"alice@campus", "bob@campus"}
RollNumbers == {"r1", "r2"}
\* the clock has two instants, so that an event's date can lie behind it
Times == {0, 1}
\* the dates an admin enters
Dates == Times
\* what int(request.form['max_participants']) can yield: any integer
CapInputs == {0 - 1, 0} \cup (1..MaxCap)

\* a key absent from the session
None == 0
AdminId == 1
Variants == {"routes", "run_local"}

(* ------------------------------ models -------------------------------- *)

\* a row of the registrations table; reg_id is never read by a handler, so the
\* table is the bag of its (event_id, student_id, timestamp) rows
Registration(e, s, t) == [event_id |-> e, student_id |-> s, timestamp |-> t]

\* the columns a handler reads; title, description, venue and department are
\* free text that is written along with them and never read back by a handler
Event(d, m) == [date |-> d, max_participants |-> m]

\* the columns signup and login read
Student(em, rn) == [email |-> em, roll_number |-> rn]

Rows(regs) == BagToSet(regs)

\* Event.registrations: the rows of event e
RegistrationsOfEvent(regs, e) ==
    LET S == {r \in Rows(regs) : r.event_id = e}
    IN  [r \in S |-> regs[r]]

\* Registration.query.filter_by(event_id=e, student_id=s)
FilterBy(regs, e, s) == {r \in Rows(regs) : r.event_id = e /\ r.student_id = s}

current_participants(regs, e) == BagCardinality(RegistrationsOfEvent(regs, e))

\* off by one: the event is full only once it is over capacity
is_full_OffByOne(evs, regs, e) == current_participants(regs, e) > evs[e].max_participants

\* full only at exactly the capacity
is_full_ExactOnly(evs, regs, e) == current_participants(regs, e) = evs[e].max_participants

is_full(evs, regs, e) == current_participants(regs, e) >= evs[e].max_participants

\* the past check reads the comparison the wrong way round
is_past_Reversed(evs, e, t) == evs[e].date > t

\* an event that starts this very moment counts as past
is_past_Inclusive(evs, e, t) == evs[e].date <= t

is_past(evs, e, t) == evs[e].date < t

\* Event.query.get in place of get_or_404: a missing event is let through
event_checks_No404(evs, regs, t, e) ==
    IF e \notin DOMAIN evs THEN "ok"
    ELSE IF is_full(evs, regs, e) THEN "EventFull"
    ELSE IF is_past(evs, e, t) THEN "EventExpired"
    ELSE "ok"

\* get_or_404, then the is_full and is_past checks, in the handler's order
event_checks(evs, regs, t, e) ==
    IF e \notin DOMAIN evs THEN "NotFound"
    ELSE IF is_full(evs, regs, e) THEN "EventFull"
    ELSE IF is_past(evs, e, t) THEN "EventExpired"
    ELSE "ok"

\* the lookup is left out
existing_registration_Skipped(regs, e, s) == FALSE

\* Registration.query.filter_by(event_id=..., student_id=...).first()
existing_registration(regs, e, s) == FilterBy(regs, e, s) # {}

\* the table was created without the constraint
UniqueConstraintOk_Missing(regs, e, s) == TRUE

\* the unique_registration constraint, as the store evaluates it at commit
UniqueConstraintOk(regs, e, s) ==
    \A r \in Rows(regs) : ~(r.event_id = e /\ r.student_id = s)

\* SQLite hands out max(rowid) + 1 for an INTEGER PRIMARY KEY
NextId(ids) == IF ids = {} THEN 1 ELSE (CHOOSE m \in ids : \A x \in ids : x <= m) + 1

(* ------------------------------ helpers ------------------------------- *)

is_student_logged_in(c) == session[c].student_id # None

\* any login counts: a session that holds a student id passes as admin
is_admin_logged_in_AnyLogin(c) ==
    session[c].admin_id # None \/ session[c].student_id # None

is_admin_logged_in(c) == session[c].admin_id # None

\* Student.query.get(session['student_id']): None when no such row is stored
get_current_student(c) ==
    IF session[c].student_id \in DOMAIN students THEN session[c].student_id ELSE None

\* what the request answers: the handler and the message it flashes
Response(op, msg) == [op |-> op, result |-> msg]

Respond(op, msg) == response' = Response(op, msg)

(* ------------------------------- store -------------------------------- *)

\* db.session.add(Registration(...)); db.session.commit(): the row goes in unless
\* the unique_registration constraint rejects it (IntegrityError)
CommitRegistrationOk(regs, e, s) == UniqueConstraintOk(regs, e, s)

\* the new row takes the place of the event's other rows
InsertRegistration_Overwrite(regs, e, s, t) ==
    LET S == {r \in Rows(regs) : r.event_id # e}
    IN  [r \in S |-> regs[r]] (+) SetToBag({Registration(e, s, t)})

\* the row is added to the session twice
InsertRegistration_Twice(regs, e, s, t) ==
    regs (+) SetToBag({Registration(e, s, t)}) (+) SetToBag({Registration(e, s, t)})

InsertRegistration(regs, e, s, t) == regs (+) SetToBag({Registration(e, s, t)})

\* the delete drops every row of the event, whoever the student
DeleteRegistration_WholeEvent(regs, r) ==
    LET S == {x \in Rows(regs) : x.event_id # r.event_id}
    IN  [x \in S |-> regs[x]]

\* db.session.delete(registration); .first() picks one matching row
DeleteRegistration(regs, r) == regs (-) SetToBag({r})

\* the relationship carries no cascade: the rows of a deleted event stay
CascadeDeleteEvent_Missing(regs, e) == regs

\* cascade='all, delete-orphan' on Event.registrations
CascadeDeleteEvent(regs, e) ==
    LET S == {r \in Rows(regs) : r.event_id # e}
    IN  [r \in S |-> regs[r]]

\* the relationship carries no cascade: the rows of a deleted student stay
CascadeDeleteStudent_Missing(regs, s) == regs

\* cascade='all, delete-orphan' on Student.registrations
CascadeDeleteStudent(regs, s) ==
    LET S == {r \in Rows(regs) : r.student_id # s}
    IN  [r \in S |-> regs[r]]

RemoveKey(f, k) == [x \in (DOMAIN f) \ {k} |-> f[x]]

PutKey(f, k, v) == [x \in (DOMAIN f) \cup {k} |-> IF x = k THEN v ELSE f[x]]

(* --------------------------- student routes --------------------------- *)

signup(c, em, rn) ==
    /\ UNCHANGED <<variant, events, registrations, session, now, inflight>>
    /\ IF \E i \in DOMAIN students : students[i].email = em
       THEN Respond("signup", "EmailTaken") /\ UNCHANGED students
       ELSE IF \E i \in DOMAIN students : students[i].roll_number = rn
       THEN Respond("signup", "RollNumberTaken") /\ UNCHANGED students
       ELSE /\ students' = PutKey(students, NextId(DOMAIN students), Student(em, rn))
            /\ Respond("signup", "SignedUp")

login(c, em, passwordOk) ==
    /\ UNCHANGED <<variant, students, events, registrations, now, inflight>>
    /\ IF passwordOk /\ \E i \in DOMAIN students : students[i].email = em
       THEN /\ session' = [session EXCEPT ![c].student_id =
                              CHOOSE i \in DOMAIN students : students[i].email = em]
            /\ Respond("login", "LoggedIn")
       ELSE Respond("login", "InvalidCredentials") /\ UNCHANGED session

\* session.clear() drops every key of the session
logout(c) ==
    /\ UNCHANGED <<variant, students, events, registrations, now, inflight>>
    /\ session' = [session EXCEPT ![c] = [student_id |-> None, admin_id |-> None]]
    /\ Respond("logout", "LoggedOut")

\* the lookup of the student's own registration comes before the event's checks
register_event_LookupFirst(c, e) ==
    /\ UNCHANGED <<variant, students, events, session, now, inflight>>
    /\ IF ~is_student_logged_in(c)
       THEN Respond("register_event", "LoginRequired") /\ UNCHANGED registrations
       ELSE IF e \notin DOMAIN events
       THEN Respond("register_event", "NotFound") /\ UNCHANGED registrations
       ELSE IF get_current_student(c) = None
       THEN Respond("register_event", "ServerError") /\ UNCHANGED registrations
       ELSE IF existing_registration(registrations, e, get_current_student(c))
       THEN Respond("register_event", "AlreadyRegistered") /\ UNCHANGED registrations
       ELSE IF event_checks(events, registrations, now, e) # "ok"
       THEN /\ Respond("register_event", event_checks(events, registrations, now, e))
            /\ UNCHANGED registrations
       ELSE /\ registrations' =
                  InsertRegistration(registrations, e, get_current_student(c), now)
            /\ Respond("register_event", "Registered")

\* student.student_id on a session whose student is no longer stored raises
\* AttributeError outside the try block: the request ends in a server error
register_event(c, e) ==
    /\ UNCHANGED <<variant, students, events, session, now, inflight>>
    /\ IF ~is_student_logged_in(c)
       THEN Respond("register_event", "LoginRequired") /\ UNCHANGED registrations
       ELSE IF event_checks(events, registrations, now, e) # "ok"
       THEN /\ Respond("register_event", event_checks(events, registrations, now, e))
            /\ UNCHANGED registrations
       ELSE IF get_current_student(c) = None
       THEN Respond("register_event", "ServerError") /\ UNCHANGED registrations
       ELSE IF existing_registration(registrations, e, get_current_student(c))
       THEN Respond("register_event", "AlreadyRegistered") /\ UNCHANGED registrations
       ELSE IF CommitRegistrationOk(registrations, e, get_current_student(c))
       THEN /\ registrations' =
                  InsertRegistration(registrations, e, get_current_student(c), now)
            /\ Respond("register_event", "Registered")
       ELSE Respond("register_event", "RegistrationFailed") /\ UNCHANGED registrations

\* only run_local.py has this route
unregister_event(c, e) ==
    /\ variant = "run_local"
    /\ UNCHANGED <<variant, students, events, session, now, inflight>>
    /\ IF ~is_student_logged_in(c)
       THEN Respond("unregister_event", "LoginRequired") /\ UNCHANGED registrations
       ELSE IF get_current_student(c) = None
       THEN Respond("unregister_event", "ServerError") /\ UNCHANGED registrations
       ELSE IF FilterBy(registrations, e, get_current_student(c)) = {}
       THEN Respond("unregister_event", "NotRegistered") /\ UNCHANGED registrations
       ELSE \E r \in FilterBy(registrations, e, get_current_student(c)) :
               /\ registrations' = DeleteRegistration(registrations, r)
               /\ Respond("unregister_event", "Unregistered")

(* ---------------------------- admin routes ---------------------------- *)

admin_login(c, passwordOk) ==
    /\ UNCHANGED <<variant, students, events, registrations, now, inflight>>
    /\ IF passwordOk
       THEN /\ session' = [session EXCEPT ![c].admin_id = AdminId]
            /\ Respond("admin_login", "AdminLoggedIn")
       ELSE Respond("admin_login", "InvalidCredentials") /\ UNCHANGED session

admin_logout(c) ==
    /\ UNCHANGED <<variant, students, events, registrations, now, inflight>>
    /\ session' = [session EXCEPT ![c] = [student_id |-> None, admin_id |-> None]]
    /\ Respond("admin_logout", "AdminLoggedOut")

\* the form (date, max_participants) is read after the login check
add_event(c) ==
    /\ UNCHANGED <<variant, students, registrations, session, now, inflight>>
    /\ IF ~is_admin_logged_in(c)
       THEN Respond("add_event", "AdminLoginRequired") /\ UNCHANGED events
       ELSE \E d \in Dates, m \in CapInputs :
            IF variant = "run_local" /\ m < 1
            THEN Respond("add_event", "CapacityTooSmall") /\ UNCHANGED events
            ELSE IF variant = "run_local" /\ d <= now
            THEN Respond("add_event", "DateNotFuture") /\ UNCHANGED events
            ELSE /\ NextId(DOMAIN events) \in EventIds
                 /\ events' = PutKey(events, NextId(DOMAIN events), Event(d, m))
                 /\ Respond("add_event", "EventAdded")

edit_event(c, e) ==
    /\ UNCHANGED <<variant, students, registrations, session, now, inflight>>
    /\ IF ~is_admin_logged_in(c)
       THEN Respond("edit_event", "AdminLoginRequired") /\ UNCHANGED events
       ELSE IF e \notin DOMAIN events
       THEN Respond("edit_event", "NotFound") /\ UNCHANGED events
       ELSE \E d \in Dates, m \in CapInputs :
            IF variant = "run_local" /\ m < 1
            THEN Respond("edit_event", "CapacityTooSmall") /\ UNCHANGED events
            ELSE IF variant = "run_local" /\ m < current_participants(registrations, e)
            THEN Respond("edit_event", "BelowCurrentRegistrations") /\ UNCHANGED events
            ELSE /\ events' = [events EXCEPT ![e] = Event(d, m)]
                 /\ Respond("edit_event", "EventUpdated")

delete_event(c, e) ==
    /\ UNCHANGED <<variant, students, session, now, inflight>>
    /\ IF ~is_admin_logged_in(c)
       THEN Respond("delete_event", "AdminLoginRequired") /\ UNCHANGED <<events, registrations>>
       ELSE IF e \notin DOMAIN events
       THEN Respond("delete_event", "NotFound") /\ UNCHANGED <<events, registrations>>
       ELSE /\ events' = RemoveKey(events, e)
            /\ registrations' = CascadeDeleteEvent(registrations, e)
            /\ Respond("delete_event", "EventDeleted")

(* ------------------------------ the clock ----------------------------- *)

\* datetime.utcnow() moves on between requests
Tick ==
    /\ now + 1 \in Times
    /\ now' = now + 1
    /\ UNCHANGED <<variant, students, events, registrations, session, response, inflight>>

(* -------------------- one request at a time: Spec --------------------- *)
(* Each request runs to its end before the next one starts, and the store *)
(* is up: a commit is turned down only by a constraint of the schema.     *)

InitStudents ==
    (1 :> Student("alice@campus", "r1")) @@ (2 :> Student("bob@campus", "r2"))

InitSession ==
    ("alice" :> [student_id |-> 1, admin_id |-> None]) @@
    ("bob" :> [student_id |-> 2, admin_id |-> None]) @@
    ("admin" :> [student_id |-> None, admin_id |-> AdminId])

\* the portal after alice and bob signed up and logged in, each from a browser
\* of their own, and the admin logged in from a third: the tables hold the two
\* students and nothing else
Init ==
    /\ variant \in Variants
    /\ students = InitStudents
    /\ events = << >>
    /\ registrations = EmptyBag
    /\ session = InitSession
    /\ now = 0
    /\ response = Response("none", "None")
    /\ inflight = [q \in Requests |-> [student_id |-> None, event_id |-> None, pc |-> "idle"]]

Next ==
    \/ \E c \in Clients, e \in EventIds : register_event(c, e)
    \/ \E c \in Clients, e \in EventIds : unregister_event(c, e)
    \/ \E c \in Clients : add_event(c)
    \/ \E c \in Clients, e \in EventIds : edit_event(c, e)
    \/ \E c \in Clients, e \in EventIds : delete_event(c, e)
    \/ Tick

Spec == Init /\ [][Next]_vars

(* ------------- requests running side by side: SpecConc ---------------- *)
(* A request is a thread (or worker process) of its own: it has its own   *)
(* ORM session, and nothing in register_event holds a lock from the       *)
(* capacity check to the commit.  register_event is cut where it talks to *)
(* the store: the load of the event and of its registrations (is_full;    *)
(* is_past reads only the clock and the loaded event), the lookup of the  *)
(* student's own registration, and the insert with its commit.            *)

Request(s, e, pc) == [student_id |-> s, event_id |-> e, pc |-> pc]

\* a request slot with no request in it
Idle == Request(None, None, "idle")

\* lines 125-140 of routes.py: login check, get_or_404, is_full, is_past
RegisterBegin(q, c, e) ==
    /\ inflight[q] = Idle
    /\ UNCHANGED <<variant, students, events, registrations, session, now>>
    /\ IF ~is_student_logged_in(c)
       THEN Respond("register_event", "LoginRequired") /\ UNCHANGED inflight
       ELSE IF event_checks(events, registrations, now, e) # "ok"
       THEN /\ Respond("register_event", event_checks(events, registrations, now, e))
            /\ UNCHANGED inflight
       ELSE IF get_current_student(c) = None
       THEN Respond("register_event", "ServerError") /\ UNCHANGED inflight
       ELSE /\ inflight' = [inflight EXCEPT ![q] =
                               Request(get_current_student(c), e, "lookup")]
            /\ UNCHANGED response

\* lines 142-149: the lookup of an existing registration
RegisterLookup(q) ==
    /\ inflight[q].pc = "lookup"
    /\ UNCHANGED <<variant, students, events, registrations, session, now>>
    /\ IF existing_registration(registrations, inflight[q].event_id, inflight[q].student_id)
       THEN /\ Respond("register_event", "AlreadyRegistered")
            /\ inflight' = [inflight EXCEPT ![q] = Idle]
       ELSE /\ inflight' = [inflight EXCEPT ![q].pc = "commit"]
            /\ UNCHANGED response

\* lines 151-159: add, commit; on an exception roll back and flash the failure
RegisterCommit(q) ==
    /\ inflight[q].pc = "commit"
    /\ UNCHANGED <<variant, students, events, session, now>>
    /\ inflight' = [inflight EXCEPT ![q] = Idle]
    /\ IF CommitRegistrationOk(registrations, inflight[q].event_id, inflight[q].student_id)
       THEN /\ registrations' = InsertRegistration(registrations, inflight[q].event_id,
                                                   inflight[q].student_id, now)
            /\ Respond("register_event", "Registered")
       ELSE Respond("register_event", "RegistrationFailed") /\ UNCHANGED registrations

\* the portal with one event on offer, created by the admin with a valid
\* capacity, and nobody registered yet
InitConc ==
    /\ variant \in Variants
    /\ students = InitStudents
    /\ \E d \in Dates, m \in 1..MaxCap : events = (1 :> Event(d, m))
    /\ registrations = EmptyBag
    /\ session = InitSession
    /\ now = 0
    /\ response = Response("none", "None")
    /\ inflight = [q \in Requests |-> [student_id |-> None, event_id |-> None, pc |-> "idle"]]

NextConc ==
    \/ \E q \in Requests, c \in Clients, e \in EventIds : RegisterBegin(q, c, e)
    \/ \E q \in Requests : RegisterLookup(q)
    \/ \E q \in Requests : RegisterCommit(q)
    \/ Tick

SpecConc == InitConc /\ [][NextConc]_vars

(* ------------- an edit racing with registers: SpecEdit ---------------- *)
(* run_local.py's edit_event compares the new capacity with               *)
(* event.current_participants, then assigns the columns and commits; no   *)
(* lock is held in between.  The admin's edit runs in request slot 1, the *)
(* students' register requests in the other slots.                        *)

EditRequest(e, d, m) ==
    [student_id |-> None, event_id |-> e, pc |-> "edit_commit",
     date |-> d, max_participants |-> m]

\* lines 428-463 of run_local.py: login check, get_or_404, the form's
\* validation, the comparison with current_participants
EditBegin(q, c, e) ==
    /\ inflight[q] = Idle
    /\ UNCHANGED <<variant, students, events, registrations, session, now>>
    /\ IF ~is_admin_logged_in(c)
       THEN Respond("edit_event", "AdminLoginRequired") /\ UNCHANGED inflight
       ELSE IF e \notin DOMAIN events
       THEN Respond("edit_event", "NotFound") /\ UNCHANGED inflight
       ELSE \E d \in Dates, m \in CapInputs :
            IF variant = "run_local" /\ m < 1
            THEN Respond("edit_event", "CapacityTooSmall") /\ UNCHANGED inflight
            ELSE IF variant = "run_local" /\ m < current_participants(registrations, e)
            THEN Respond("edit_event", "BelowCurrentRegistrations") /\ UNCHANGED inflight
            ELSE /\ inflight' = [inflight EXCEPT ![q] = EditRequest(e, d, m)]
                 /\ UNCHANGED response

\* lines 465-475: the assignments to the event and the commit
EditCommit(q) ==
    /\ inflight[q].pc = "edit_commit"
    /\ UNCHANGED <<variant, students, registrations, session, now>>
    /\ events' = [events EXCEPT ![inflight[q].event_id] =
                     Event(inflight[q].date, inflight[q].max_participants)]
    /\ inflight' = [inflight EXCEPT ![q] = Idle]
    /\ Respond("edit_event", "EventUpdated")

\* run_local.py with one event on offer and nobody registered yet
InitEdit ==
    /\ variant = "run_local"
    /\ students = InitStudents
    /\ \E d \in Dates, m \in 1..MaxCap : events = (1 :> Event(d, m))
    /\ registrations = EmptyBag
    /\ session = InitSession
    /\ now = 0
    /\ response = Response("none", "None")
    /\ inflight = [q \in Requests |-> Idle]

NextEdit ==
    \/ \E c \in Clients, e \in EventIds : EditBegin(1, c, e)
    \/ EditCommit(1)
    \/ \E q \in Requests \ {1}, c \in Clients, e \in EventIds : RegisterBegin(q, c, e)
    \/ \E q \in Requests \ {1} : RegisterLookup(q)
    \/ \E q \in Requests \ {1} : RegisterCommit(q)

SpecEdit == InitEdit /\ [][NextEdit]_vars

(* ------------------ the store fails a commit: SpecFault --------------- *)
(* db.session.commit() can raise for reasons outside the schema (the      *)
(* connection drops, the database is locked).  Every handler that writes  *)
(* wraps its commit in try/except Exception, rolls the session back and   *)
(* flashes a failure.  The *_except actions are those requests: the       *)
(* handler's checks pass, the change is pending in the session, and the   *)
(* commit raises.                                                         *)

\* the session's pending changes are written out all the same
Rollback_Flushed(committed, pending) == pending

\* db.session.rollback(): the pending changes are dropped, the store keeps
\* what was committed
Rollback(committed, pending) == committed

register_event_except(c, e) ==
    /\ is_student_logged_in(c)
    /\ event_checks(events, registrations, now, e) = "ok"
    /\ get_current_student(c) # None
    /\ ~existing_registration(registrations, e, get_current_student(c))
    /\ UNCHANGED <<variant, students, events, session, now, inflight>>
    /\ registrations' = Rollback(registrations,
                            InsertRegistration(registrations, e, get_current_student(c), now))
    /\ Respond("register_event", "RegistrationFailed")

unregister_event_except(c, e) ==
    /\ variant = "run_local"
    /\ is_student_logged_in(c)
    /\ get_current_student(c) # None
    /\ UNCHANGED <<variant, students, events, session, now, inflight>>
    /\ \E r \in FilterBy(registrations, e, get_current_student(c)) :
          registrations' = Rollback(registrations, DeleteRegistration(registrations, r))
    /\ Respond("unregister_event", "UnregistrationFailed")

add_event_except(c) ==
    /\ is_admin_logged_in(c)
    /\ UNCHANGED <<variant, students, registrations, session, now, inflight>>
    /\ \E d \in Dates, m \in CapInputs :
          /\ ~(variant = "run_local" /\ (m < 1 \/ d <= now))
          /\ NextId(DOMAIN events) \in EventIds
          /\ events' = Rollback(events, PutKey(events, NextId(DOMAIN events), Event(d, m)))
    /\ Respond("add_event", "AddFailed")

edit_event_except(c, e) ==
    /\ is_admin_logged_in(c)
    /\ e \in DOMAIN events
    /\ UNCHANGED <<variant, students, registrations, session, now, inflight>>
    /\ \E d \in Dates, m \in CapInputs :
          /\ ~(variant = "run_local"
                /\ (m < 1 \/ m < current_participants(registrations, e)))
          /\ events' = Rollback(events, [events EXCEPT ![e] = Event(d, m)])
    /\ Respond("edit_event", "UpdateFailed")

delete_event_except(c, e) ==
    /\ is_admin_logged_in(c)
    /\ e \in DOMAIN events
    /\ UNCHANGED <<variant, students, session, now, inflight>>
    /\ events' = Rollback(events, RemoveKey(events, e))
    /\ registrations' = Rollback(registrations, CascadeDeleteEvent(registrations, e))
    /\ Respond("delete_event", "DeleteFailed")

\* the requests of Spec, each with a commit that goes through or one that
\* fails; the clock stands still meanwhile
NextFault ==
    \/ \E c \in Clients, e \in EventIds : register_event(c, e)
    \/ \E c \in Clients, e \in EventIds : unregister_event(c, e)
    \/ \E c \in Clients : add_event(c)
    \/ \E c \in Clients, e \in EventIds : edit_event(c, e)
    \/ \E c \in Clients, e \in EventIds : delete_event(c, e)
    \/ \E c \in Clients, e \in EventIds : register_event_except(c, e)
    \/ \E c \in Clients, e \in EventIds : unregister_event_except(c, e)
    \/ \E c \in Clients : add_event_except(c)
    \/ \E c \in Clients, e \in EventIds : edit_event_except(c, e)
    \/ \E c \in Clients, e \in EventIds : delete_event_except(c, e)

SpecFault == Init /\ [][NextFault]_vars

(* ---------------- one browser, every route: SpecVisit ----------------- *)
(* A shared machine: one browser, hence one cookie session, is used in    *)
(* turn by the students and by the admin, for every route of the portal.  *)
(* alice has signed up; bob has yet to.                                   *)

Visitors == {"alice"}

InitVisit ==
    /\ variant \in Variants
    /\ students = (1 :> Student("alice@campus", "r1"))
    /\ events = << >>
    /\ registrations = EmptyBag
    /\ session = [c \in Clients |-> [student_id |-> None, admin_id |-> None]]
    /\ now = 0
    /\ response = Response("none", "None")
    /\ inflight = [q \in Requests |-> Idle]

NextVisit ==
    \/ \E c \in Visitors, em \in Emails, rn \in RollNumbers : signup(c, em, rn)
    \/ \E c \in Visitors, em \in Emails, passwordOk \in BOOLEAN : login(c, em, passwordOk)
    \/ \E c \in Visitors : logout(c)
    \/ \E c \in Visitors, passwordOk \in BOOLEAN : admin_login(c, passwordOk)
    \/ \E c \in Visitors : admin_logout(c)
    \/ \E c \in Visitors, e \in EventIds : register_event(c, e)
    \/ \E c \in Visitors, e \in EventIds : unregister_event(c, e)
    \/ \E c \in Visitors : add_event(c)
    \/ \E c \in Visitors, e \in EventIds : edit_event(c, e)
    \/ \E c \in Visitors, e \in EventIds : delete_event(c, e)

SpecVisit == InitVisit /\ [][NextVisit]_vars

(* ------------------- the seeded catalogue: SpecSeed ------------------- *)
(* run_local.py fills the events table at start-up (ten events, all of    *)
(* one capacity); three students use it, one request at a time.  No route *)
(* deletes a Student: delete_student is the ORM delete of a Student row,  *)
(* as the spec's lifecycle names it, acting through the cascade declared  *)
(* on Student.registrations.                                              *)

SeedEventIds == {1, 2}

SeedClients == Clients \cup {"carol"}

SeedStudents == InitStudents @@ (3 :> Student("carol@campus", "r3"))

SeedSession == InitSession @@ ("carol" :> [student_id |-> 3, admin_id |-> None])

\* db.session.delete(student); db.session.commit()
delete_student(s) ==
    /\ s \in DOMAIN students
    /\ UNCHANGED <<variant, events, session, now, inflight>>
    /\ students' = RemoveKey(students, s)
    /\ registrations' = CascadeDeleteStudent(registrations, s)
    /\ Respond("delete_student", "StudentDeleted")

\* initialize_sample_data: every event with the same max_participants
InitSeed ==
    /\ variant = "run_local"
    /\ students = SeedStudents
    /\ \E m \in 1..MaxCap : \E d \in [SeedEventIds -> Dates] :
          events = [e \in SeedEventIds |-> Event(d[e], m)]
    /\ registrations = EmptyBag
    /\ session = SeedSession
    /\ now = 0
    /\ response = Response("none", "None")
    /\ inflight = [q \in Requests |-> Idle]

NextSeed ==
    \/ \E c \in SeedClients, e \in SeedEventIds : register_event(c, e)
    \/ \E c \in SeedClients, e \in SeedEventIds : unregister_event(c, e)
    \/ \E c \in SeedClients, e \in SeedEventIds : delete_event(c, e)
    \/ \E s \in DOMAIN SeedStudents : delete_student(s)
    \/ Tick

SpecSeed == InitSeed /\ [][NextSeed]_vars

(* ------------------------------ properties ---------------------------- *)

\* the number of rows of the registrations table for event e
RegCount(regs, e) ==
    LET S == {r \in DOMAIN regs : r.event_id = e}
    IN  BagCardinality([r \in S |-> regs[r]])

\* the number of rows for the pair (event e, student s)
PairCount(regs, e, s) ==
    LET S == {r \in DOMAIN regs : r.event_id = e /\ r.student_id = s}
    IN  BagCardinality([r \in S |-> regs[r]])

WithinCapacity(evs, regs, e) == RegCount(regs, e) <= evs[e].max_participants

\* the student a browser is logged in as, read off the session cookie
StudentOf(c) == session[c].student_id

\* the step is a register request of browser c for event e, served whole
RegisterStep(c, e) == response'.op = "register_event" /\ register_event(c, e)

\* the step is an unregister request of browser c for event e, served whole
UnregisterStep(c, e) == response'.op = "unregister_event" /\ unregister_event(c, e)

\* the step is an edit-event request of browser c for event e, served whole
EditStep(c, e) == response'.op = "edit_event" /\ edit_event(c, e)

\* the step is an add-event request of browser c, served whole
AddStep(c) == response'.op = "add_event" /\ add_event(c)

\* the step is a delete-event request of browser c for event e, served whole
DeleteStep(c, e) == response'.op = "delete_event" /\ delete_event(c, e)

\* the step is the deletion of student s, served whole
DeleteStudentStep(s) == response'.op = "delete_student" /\ delete_student(s)

\* the messages a handler flashes from its except branch
Failures ==
    {"RegistrationFailed", "UnregistrationFailed", "AddFailed", "UpdateFailed", "DeleteFailed"}

\* C1: register requests served one at a time never take an event over its
\* capacity: after a register request every event that was within
\* max_participants still is, and an event that got a Registration is
\* within max_participants
C1_RegisterKeepsCapacity ==
    [][\A c \in Clients, e \in EventIds :
         RegisterStep(c, e) =>
           \A x \in DOMAIN events :
              /\ WithinCapacity(events, registrations, x)
                    => WithinCapacity(events', registrations', x)
              /\ RegCount(registrations', x) # RegCount(registrations, x)
                    => WithinCapacity(events', registrations', x)]_vars

\* a register request has just filled an event to its capacity
C1_Witness ==
    /\ response = Response("register_event", "Registered")
    /\ \E e \in DOMAIN events :
          /\ events[e].max_participants >= 1
          /\ RegCount(registrations, e) = events[e].max_participants

\* C2: in every state reached by register, unregister and event
\* add/edit/delete requests there is at most one Registration for each
\* (event, student) pair
C2_UniquePair ==
    \A e \in EventIds, s \in StudentIds : PairCount(registrations, e, s) <= 1

\* a student who is registered was turned away on asking again
C2_Witness ==
    /\ response = Response("register_event", "AlreadyRegistered")
    /\ \E e \in DOMAIN events, s \in StudentIds : PairCount(registrations, e, s) = 1

\* C3: register is atomic from its capacity check to its insert, so that
\* however register requests of different students interleave, no event
\* holds more Registrations than max_participants
C3_CapacityUnderConcurrency ==
    \A e \in DOMAIN events : WithinCapacity(events, registrations, e)

\* C4: however register requests interleave, at most one Registration per
\* (event, student) pair is ever committed: a commit that finds the pair
\* in the table is rejected by the unique constraint, rolls back and
\* reports failure
C4_UniqueUnderRace ==
    /\ [](\A e \in EventIds, s \in StudentIds : PairCount(registrations, e, s) <= 1)
    /\ [][\A q \in Requests :
            (/\ RegisterCommit(q)
             /\ PairCount(registrations, inflight[q].event_id, inflight[q].student_id) >= 1)
            => /\ response' = Response("register_event", "RegistrationFailed")
               /\ registrations' = registrations]_vars

\* the second of two racing requests of one student was rejected at commit
C4_Witness ==
    /\ response = Response("register_event", "RegistrationFailed")
    /\ \E e \in DOMAIN events, s \in StudentIds : PairCount(registrations, e, s) = 1

\* C5: a register request of a logged-in student for an event whose
\* registration count is at or over max_participants is answered
\* "event full" and leaves the three tables as they were
C5_FullEventRejected ==
    [][\A c \in Clients, e \in EventIds :
         (/\ RegisterStep(c, e)
          /\ StudentOf(c) # None
          /\ e \in DOMAIN events
          /\ RegCount(registrations, e) >= events[e].max_participants)
         => /\ response' = Response("register_event", "EventFull")
            /\ store' = store]_vars

\* a student was turned away from an event that others have filled
C5_Witness ==
    /\ response = Response("register_event", "EventFull")
    /\ \E e \in DOMAIN events :
          /\ RegCount(registrations, e) >= 1
          /\ RegCount(registrations, e) >= events[e].max_participants

\* C6 as stated: a register request for an event whose date is before the
\* current time is answered "event expired" and creates no Registration,
\* whatever the event's remaining capacity
C6_PastAlwaysExpired ==
    [][\A c \in Clients, e \in EventIds :
         (/\ RegisterStep(c, e)
          /\ StudentOf(c) # None
          /\ e \in DOMAIN events
          /\ events[e].date < now)
         => /\ response' = Response("register_event", "EventExpired")
            /\ registrations' = registrations]_vars

\* C6 as amended: a register request for an event whose date is before
\* the current time fails and creates no Registration whatever the
\* remaining capacity; it is answered "event expired" when the event has
\* room left and "event full" when it has none
C6_PastAlwaysFails ==
    [][\A c \in Clients, e \in EventIds :
         (/\ RegisterStep(c, e)
          /\ StudentOf(c) # None
          /\ e \in DOMAIN events
          /\ events[e].date < now)
         => /\ registrations' = registrations
            /\ response' = Response("register_event",
                              IF RegCount(registrations, e) >= events[e].max_participants
                              THEN "EventFull" ELSE "EventExpired")]_vars

\* a student was turned away from a past event that still had room
C6_Witness ==
    /\ response = Response("register_event", "EventExpired")
    /\ \E e \in DOMAIN events :
          /\ events[e].date < now
          /\ RegCount(registrations, e) < events[e].max_participants

\* C7: a register request of a logged-in student with an event id that
\* names no stored Event is answered "not found" and creates neither a
\* Registration nor an Event
C7_MissingEventNotFound ==
    [][\A c \in Clients, e \in EventIds :
         (/\ RegisterStep(c, e)
          /\ StudentOf(c) # None
          /\ e \notin DOMAIN events)
         => /\ response' = Response("register_event", "NotFound")
            /\ registrations' = registrations
            /\ events' = events]_vars

\* a register request named an event id that is not in the table
C7_Witness ==
    /\ response = Response("register_event", "NotFound")
    /\ \E e \in EventIds : e \notin DOMAIN events
    /\ registrations = EmptyBag

\* C8: a register request of a student who holds a Registration for the
\* event (event not full, not past) is answered "already registered" and
\* leaves every Registration, timestamps included, as it was
C8_DuplicateRejected ==
    [][\A c \in Clients, e \in EventIds :
         (/\ RegisterStep(c, e)
          /\ StudentOf(c) # None
          /\ e \in DOMAIN events
          /\ RegCount(registrations, e) < events[e].max_participants
          /\ ~(events[e].date < now)
          /\ PairCount(registrations, e, StudentOf(c)) >= 1)
         => /\ response' = Response("register_event", "AlreadyRegistered")
            /\ registrations' = registrations]_vars

\* a student asked again after the clock moved on, and the Registration
\* still carries its first timestamp
C8_Witness ==
    /\ response = Response("register_event", "AlreadyRegistered")
    /\ \E r \in DOMAIN registrations : r.timestamp < now

\* C9: when the event exists, is not full, is not past and the logged-in
\* student holds no Registration for it, the register request succeeds and
\* adds exactly one Registration, for that event and that student, stamped
\* with the current time; all other Registrations, the Events and the
\* Students stay as they were
C9_RegisterSucceeds ==
    [][\A c \in Clients, e \in EventIds :
         (/\ RegisterStep(c, e)
          /\ StudentOf(c) # None
          /\ e \in DOMAIN events
          /\ RegCount(registrations, e) < events[e].max_participants
          /\ ~(events[e].date < now)
          /\ PairCount(registrations, e, StudentOf(c)) = 0)
         => /\ response' = Response("register_event", "Registered")
            /\ registrations' = registrations (+) SetToBag(
                  {[event_id |-> e, student_id |-> StudentOf(c), timestamp |-> now]})
            /\ events' = events
            /\ students' = students]_vars

\* a second student registered next to one who already had
C9_Witness ==
    /\ response = Response("register_event", "Registered")
    /\ BagCardinality(registrations) >= 2

\* C10: an unregister request of a logged-in student is answered "not
\* registered" and changes nothing when the student holds no Registration
\* for the event; otherwise it deletes that one Registration and leaves
\* all other Registrations, the Events and the Students as they were
C10_Unregister ==
    [][\A c \in Clients, e \in EventIds :
         (UnregisterStep(c, e) /\ StudentOf(c) # None)
         => IF PairCount(registrations, e, StudentOf(c)) = 0
            THEN /\ response' = Response("unregister_event", "NotRegistered")
                 /\ store' = store
            ELSE /\ response' = Response("unregister_event", "Unregistered")
                 /\ \E r \in DOMAIN registrations :
                       /\ r.event_id = e
                       /\ r.student_id = StudentOf(c)
                       /\ registrations' = registrations (-) SetToBag({r})
                 /\ events' = events
                 /\ students' = students]_vars

\* a student unregistered and another student's Registration is still there
C10_Witness ==
    /\ response = Response("unregister_event", "Unregistered")
    /\ BagCardinality(registrations) >= 1

\* C11: in both deployments an edit-event request that sets
\* max_participants (to 1 or more, but) below the event's current number
\* of Registrations fails and leaves the Event and the Registrations as
\* they were: no edit is answered "updated" with the new capacity below
\* the count
C11_EditBelowCountRejected ==
    [][\A c \in Clients, e \in EventIds :
         (EditStep(c, e) /\ e \in DOMAIN events)
         => ~(/\ response'.result = "EventUpdated"
              /\ events'[e].max_participants >= 1
              /\ events'[e].max_participants < RegCount(registrations, e))]_vars

\* C12: every stored Event has max_participants >= 1 in every reachable
\* state, since add_event and edit_event of both deployments reject a
\* capacity of 0 or below
C12_CapacityAtLeastOne ==
    \A e \in DOMAIN events : events[e].max_participants >= 1

\* C13: after a successful delete-event request for event E no
\* Registration references E, and every Registration of another event is
\* in the table exactly as before
C13_DeleteEventCascades ==
    [][\A c \in SeedClients, e \in SeedEventIds :
         (DeleteStep(c, e) /\ response'.result = "EventDeleted")
         => /\ e \notin DOMAIN events'
            /\ RegCount(registrations', e) = 0
            /\ \A r \in DOMAIN registrations \cup DOMAIN registrations' :
                  r.event_id # e => CopiesIn(r, registrations') = CopiesIn(r, registrations)]_vars

\* one of two events was deleted while the other has Registrations
C13_Witness ==
    /\ response = Response("delete_event", "EventDeleted")
    /\ Cardinality(DOMAIN events) = 1
    /\ \E e \in DOMAIN events : RegCount(registrations, e) >= 2

\* C14: an event with capacity N and a date not yet past takes exactly N
\* Registrations: a register request of a student who is not yet
\* registered succeeds (count + 1) while the count is below N; at count N
\* the event is full, and the request of any further student is answered
\* "event full" and adds nothing
C14_ExactlyCapacity ==
    /\ [](\A e \in DOMAIN events :
            /\ RegCount(registrations, e) <= events[e].max_participants
            /\ RegCount(registrations, e) = events[e].max_participants
                  => is_full(events, registrations, e))
    /\ [][\A c \in SeedClients, e \in SeedEventIds :
            (/\ RegisterStep(c, e)
             /\ StudentOf(c) \in DOMAIN students
             /\ e \in DOMAIN events
             /\ events[e].date >= now
             /\ PairCount(registrations, e, StudentOf(c)) = 0)
            => IF RegCount(registrations, e) < events[e].max_participants
               THEN /\ response' = Response("register_event", "Registered")
                    /\ RegCount(registrations', e) = RegCount(registrations, e) + 1
               ELSE /\ response' = Response("register_event", "EventFull")
                    /\ registrations' = registrations]_vars

\* two students filled an event of capacity 2 and the third was turned away
C14_Witness ==
    /\ response = Response("register_event", "EventFull")
    /\ \E e \in DOMAIN events :
          /\ events[e].date >= now
          /\ events[e].max_participants = 2
          /\ RegCount(registrations, e) = 2
          /\ \A s \in DOMAIN students : PairCount(registrations, e, s) <= 1
          /\ \E s \in DOMAIN students : PairCount(registrations, e, s) = 0

\* C19: deleting a Student removes every Registration of that student
\* and none of any other student, so that in every reachable state each
\* Registration references a stored Student
C19_DeleteStudentCascades ==
    /\ [](\A r \in DOMAIN registrations : r.student_id \in DOMAIN students)
    /\ [][\A s \in DOMAIN SeedStudents :
            DeleteStudentStep(s)
            => /\ s \notin DOMAIN students'
               /\ \A r \in DOMAIN registrations' : r.student_id # s
               /\ \A r \in DOMAIN registrations :
                     r.student_id # s => CopiesIn(r, registrations') = CopiesIn(r, registrations)]_vars

\* a student was deleted and the Registrations of the others are in place
C19_Witness ==
    /\ response = Response("delete_student", "StudentDeleted")
    /\ Cardinality(DOMAIN students) = 2
    /\ BagCardinality(registrations) >= 2

\* C20: the rejections of a register request come in the order full,
\* past, already registered: a student who holds a Registration for the
\* event is answered "event full" when the event is full, "event expired"
\* when it is past and not full, and "already registered" only when it is
\* neither; no Registration changes
C20_RejectionOrder ==
    [][\A c \in Clients, e \in EventIds :
         (/\ RegisterStep(c, e)
          /\ StudentOf(c) # None
          /\ e \in DOMAIN events
          /\ PairCount(registrations, e, StudentOf(c)) >= 1)
         => /\ registrations' = registrations
            /\ response' = Response("register_event",
                  IF RegCount(registrations, e) >= events[e].max_participants
                  THEN "EventFull"
                  ELSE IF events[e].date < now THEN "EventExpired"
                  ELSE "AlreadyRegistered")]_vars

\* both students hold a Registration for a full event and one of them asked
\* again
C20_Witness ==
    /\ response = Response("register_event", "EventFull")
    /\ \E e \in DOMAIN events :
          /\ events[e].max_participants = 2
          /\ \A s \in StudentIds : PairCount(registrations, e, s) = 1

\* C15: when the commit of a register, unregister, add-event, edit-event
\* or delete-event request is rejected by the store, the handler rolls
\* back and reports failure, and Students, Events and Registrations are
\* exactly those from before the request
C15_FailedCommitRollsBack ==
    [][(/\ response'.result \in Failures
        /\ \E c \in Clients :
              \/ add_event_except(c)
              \/ \E e \in EventIds :
                    \/ register_event_except(c, e)
                    \/ unregister_event_except(c, e)
                    \/ edit_event_except(c, e)
                    \/ delete_event_except(c, e))
       => store' = store]_vars

\* the commit of a delete-event request failed, and the event and its
\* Registrations are all there
C15_Witness ==
    /\ response = Response("delete_event", "DeleteFailed")
    /\ \E e \in DOMAIN events : RegCount(registrations, e) >= 1

\* C16: the student slot and the admin slot of a session are independent:
\* a student login or logout leaves the admin slot as it was, and an admin
\* login or logout leaves the student slot as it was
C16_SlotsIndependent ==
    [][\A c \in Clients :
         /\ response'.op \in {"login", "logout"}
               => session'[c].admin_id = session[c].admin_id
         /\ response'.op \in {"admin_login", "admin_logout"}
               => session'[c].student_id = session[c].student_id]_vars

\* C18: a committed Registration stays in the table, unaltered, until its
\* student unregisters from its event or its Event is deleted: no other
\* request (register by whichever student, add or edit event, signup,
\* login, logout) removes or changes it
C18_RegistrationStays ==
    [][\A r \in DOMAIN registrations :
         CopiesIn(r, registrations') < CopiesIn(r, registrations)
         => \E c \in Clients :
               \/ UnregisterStep(c, r.event_id) /\ StudentOf(c) = r.student_id
               \/ DeleteStep(c, r.event_id)]_vars

\* the admin edited an event that holds the Registrations of two students
C18_Witness ==
    /\ response = Response("edit_event", "EventUpdated")
    /\ \E e \in DOMAIN events : RegCount(registrations, e) = 2

\* C17: edit_event's check of the new capacity against the registration
\* count and its commit are atomic with respect to register requests:
\* however an edit that lowers max_participants interleaves with register
\* requests for the event, once every request has completed the event
\* holds at most max_participants Registrations
C17_EditAtomicWithRegister ==
    (\A q \in Requests : inflight[q] = Idle)
    => \A e \in DOMAIN events : WithinCapacity(events, registrations, e)

\* C21: unregistering frees a slot.  When a registered student
\* unregisters from a full event that is not past, the event is no longer
\* full and a register request of any student not registered for it would
\* succeed there; the register request that follows such an unregister
\* does succeed and fills the event again.  And after a successful
\* register, the same student's unregister takes the event's
\* Registrations back to what they were before the register
C21_UnregisterFreesSlot ==
    /\ [][\A c \in SeedClients, e \in SeedEventIds :
            (/\ UnregisterStep(c, e)
             /\ response'.result = "Unregistered"
             /\ e \in DOMAIN events
             /\ events[e].date >= now
             /\ is_full(events, registrations, e))
            => /\ ~is_full(events', registrations', e)
               /\ \A c2 \in SeedClients :
                     (/\ StudentOf(c2) \in DOMAIN students'
                      /\ PairCount(registrations', e, StudentOf(c2)) = 0)
                     => /\ event_checks(events', registrations', now', e) = "ok"
                        /\ ~existing_registration(registrations', e, StudentOf(c2))
                        /\ CommitRegistrationOk(registrations', e, StudentOf(c2))]_vars
    /\ [][\A c \in SeedClients, e \in SeedEventIds :
            (/\ response = Response("unregister_event", "Unregistered")
             /\ RegisterStep(c, e)
             /\ StudentOf(c) \in DOMAIN students
             /\ e \in DOMAIN events
             /\ events[e].date >= now
             /\ RegCount(registrations, e) = events[e].max_participants - 1
             /\ PairCount(registrations, e, StudentOf(c)) = 0)
            => /\ response' = Response("register_event", "Registered")
               /\ RegCount(registrations', e) = events[e].max_participants]_vars
    /\ [][\A c \in SeedClients, e \in SeedEventIds :
            (RegisterStep(c, e) /\ response'.result = "Registered")
            => /\ FilterBy(registrations', e, StudentOf(c)) # {}
               /\ \A r \in FilterBy(registrations', e, StudentOf(c)) :
                     DeleteRegistration(registrations', r) = registrations]_vars

\* a student has just unregistered from an event that was full: it is one
\* short of its capacity, not past, and every other event is full
C21_Witness ==
    /\ response = Response("unregister_event", "Unregistered")
    /\ Cardinality(DOMAIN events) = 2
    /\ \E e \in DOMAIN events :
          /\ events[e].date >= now
          /\ RegCount(registrations, e) = events[e].max_participants - 1
          /\ RegCount(registrations, e) >= 1
          /\ \A x \in DOMAIN events \ {e} :
                RegCount(registrations, x) = events[x].max_participants

\* C22: a request without the identity it requires never changes the
\* store: register and unregister from a session with no student id, and
\* add, edit and delete event from a session with no admin id (a session
\* that holds only a student id included), leave Students, Events and
\* Registrations as they were
C22_NoIdentityNoMutation ==
    [][\A c \in Clients :
         /\ (/\ session[c].student_id = None
             /\ \E e \in EventIds : RegisterStep(c, e) \/ UnregisterStep(c, e))
            => store' = store
         /\ (/\ session[c].admin_id = None
             /\ \/ AddStep(c)
                \/ \E e \in EventIds : EditStep(c, e) \/ DeleteStep(c, e))
            => store' = store]_vars

\* a logged-in student, not logged in as admin, asked to delete an event
\* that holds a Registration, and was sent to the admin login
C22_Witness ==
    /\ response = Response("delete_event", "AdminLoginRequired")
    /\ \E c \in Visitors : session[c].student_id # None /\ session[c].admin_id = None
    /\ \E e \in DOMAIN events : RegCount(registrations, e) >= 1

====
